---- MODULE Spec2Model ----
(***************************************************************************)
(* MagicMove: the transition orchestrator (MagicMoveProvider), its         *)
(* participant registry, the hook-level context access and the standalone  *)
(* trigger, modelled as a state machine over the single UI thread.         *)
(*                                                                         *)
(* One step of the model is one task of the event loop: a call of the      *)
(* library's API by application code, a mount or unmount of a provider, or *)
(* a callback made by the host (the render step of a view transition, the  *)
(* settlement of its finished promise, a deferred React commit).           *)
(***************************************************************************)
EXTENDS Integers, Sequences, FiniteSets, TLC

\* ------------------------------------------------------------------ bounds

\* how many callbacks the application passes to startTransition and
\* triggerMagicMove in one behaviour
MaxCalls == 2

\* how many items a MagicMoveList is rendered with
MaxItems == 2

\* ------------------------------------------------------- program constants

DefaultDuration == 300
DefaultEasing == "cubic-bezier(0.4, 0, 0.2, 1)"
DefaultPrefix == "list-item"
ProviderStyleId == "magic-move-styles"
TempStyleId == "magic-move-temp-styles"

\* ------------------------------------------------------------- input sets

\* every provider instance a behaviour can construct
Instances == {"P1", "P2"}

\* the provider of an application that follows the remark of lines 97-100,
\* "Only one MagicMoveProvider should be used per application"
Providers == {"P1"}
\* the MagicMove instances an application renders, in tree order
Wrappers == <<"w1", "w2">>
Ids == {"a", "b"}
Elements == {"e1", "e2"}
Null == "null"
Standalone == "standalone"
Absent == <<>>
OtherEasing == "ease-out"

\* the layoutId prop of MagicMove and MagicMoveImage: <<value>>, or Absent
\* when left out; the empty string is a value a caller can pass
LayoutIds == {Absent, <<"">>, <<"a">>, <<"b">>}

\* what getKey returns for the items of a list, and the transitionPrefix prop
Keys == {"1", "2", "1-2"}
Prefixes == {Absent, <<"todo">>, <<"todo-1">>}

\* the items prop of a MagicMoveList, each item given by its key
Items == UNION {[1..n -> Keys] : n \in 0..MaxItems}

\* the props a provider is constructed with, defaults applied
Configs ==
  { [duration |-> DefaultDuration, easing |-> DefaultEasing],
    [duration |-> 400, easing |-> OtherEasing] }

\* the options object of triggerMagicMove; a field is <<value>>, or Absent
\* when left out
Options ==
  { [duration |-> Absent, easing |-> Absent],
    [duration |-> <<400>>, easing |-> <<OtherEasing>>] }

VARIABLES
  supported,        \* document.startViewTransition exists
  status,           \* provider instance -> "unmounted" | "mounted" | "torn"
  isTransitioning,  \* provider instance -> the useState cell of line 108
  elements,         \* provider instance -> its Map, as a set of <<id, element>>
  held,             \* providers whose context value a consumer has obtained
  config,           \* provider instance -> the duration and easing props
  hasCleanup,       \* provider instance -> its style effect returned a cleanup
  styles,           \* the <style> elements of document.head, in document order
  calls,            \* the callbacks passed in so far, each with its progress
  wrappers,         \* MagicMove instance -> its rendered name and its effect
  rendered,         \* the element the last MagicMove or MagicMoveImage
                    \* render returned, with the props it was given
  list,             \* the rows of the last two MagicMoveList renders
  last              \* the most recent API operation and how it ended

vars ==
  <<supported, status, isTransitioning, elements, held, config, hasCleanup,
    styles, calls, wrappers, rendered, list, last>>

\* ---------------------------------------------------------------- helpers

\* Map.prototype.get, Null standing for undefined
MapGet(map, id) ==
  IF \E e \in map : e[1] = id THEN (CHOOSE e \in map : e[1] = id)[2] ELSE Null

MapHas(map, id) == \E e \in map : e[1] = id

\* Map.prototype.set: the entry of the key is replaced, never duplicated
MapSet(map, id, element) == {e \in map : e[1] # id} \cup {<<id, element>>}

\* Map.prototype.delete: a missing key is no error
MapDelete(map, id) == {e \in map : e[1] # id}

\* document.getElementById over the style elements: the index of the first
\* element with that id, 0 for null
GetElementById(head, styleId) ==
  IF \E i \in 1..Len(head) : head[i].id = styleId
  THEN CHOOSE i \in 1..Len(head) :
         head[i].id = styleId /\ \A j \in 1..(i - 1) : head[j].id # styleId
  ELSE 0

\* Element.remove
RemoveAt(head, i) ==
  [j \in 1..(Len(head) - 1) |-> IF j < i THEN head[j] ELSE head[j + 1]]

\* the <style> element with its textContent, kept as the two interpolated
\* values, and who called document.createElement for it
StyleElement(styleId, duration, easing, by) ==
  [id |-> styleId, duration |-> duration, easing |-> easing, by |-> by]

\* the duration and easing interpolated into a style element's text
Timing(style) == [duration |-> style.duration, easing |-> style.easing]

\* the number of style elements in the document that carry the id
CountById(head, styleId) ==
  Cardinality({i \in 1..Len(head) : head[i].id = styleId})

\* the style elements that carry the id, in document order
ById(head, styleId) == SelectSeq(head, LAMBDA e : e.id = styleId)

\* The timing the view-transition pseudo-elements animate with. Both style
\* texts declare animation-duration and animation-timing-function under the
\* same selectors (MagicMoveContext.tsx 200-211, useMagicMove.ts 227-238), so
\* in the cascade the element that is later in the document wins.
AppliedTiming(head) == Timing(head[Len(head)])

Range(seq) == {seq[i] : i \in 1..Len(seq)}

\* A MagicMove instance that is not rendered. under is the provider whose
\* context it read, tag the viewTransitionName its element carries (lines
\* 146 and 164-167), reg the name its effect registered last and its cleanup
\* will unregister (lines 152-160), prev the name the effect run before that
\* one registered; "none" stands for no provider, no element and no cleanup.
NoWrapper ==
  [under |-> "none", tag |-> "none", reg |-> "none", prev |-> "none"]

\* what config holds for an instance that is not mounted and so has no props
NoProps == [duration |-> DefaultDuration, easing |-> DefaultEasing]

\* nothing rendered yet by MagicMove or MagicMoveImage
NoElement ==
  [component |-> "none", w |-> "none", id |-> "none", layoutId |-> Absent,
   style |-> [viewTransitionName |-> "none"], dataMagicMoveId |-> "none"]

\* no MagicMoveList rendered yet
NoList ==
  [transitionPrefix |-> Absent, rows |-> <<>>,
   before |-> [transitionPrefix |-> Absent, rows |-> <<>>]]

NoOp == [op |-> "none", p |-> "none", id |-> "none", el |-> "none",
         old |-> "none", threw |-> "none",
         options |-> [duration |-> Absent, easing |-> Absent]]

\* ---------------------------------------------------------- initial state

Init ==
  /\ supported \in BOOLEAN
  /\ status = [p \in Instances |-> "unmounted"]
  /\ isTransitioning = [p \in Instances |-> FALSE]
  /\ elements = [p \in Instances |-> {}]
  /\ held = {}
  /\ config = [p \in Instances |-> NoProps]
  /\ hasCleanup = [p \in Instances |-> FALSE]
  /\ styles = <<>>
  /\ calls = <<>>
  /\ wrappers = [w \in Range(Wrappers) |-> NoWrapper]
  /\ rendered = NoElement
  /\ list = NoList
  /\ last = NoOp

\* ------------------------------------------------- provider mount / unmount

\* the style effect without the check of line 191
StyleEffect_NoDuplicateCheck(head, p, cfg) ==
  Append(head, StyleElement(ProviderStyleId, cfg.duration, cfg.easing, p))

\* The body of the style effect (lines 187-212): nothing when a style with the
\* id is already in the document, and then no cleanup is returned either.
StyleEffect(head, p, cfg) ==
  IF GetElementById(head, ProviderStyleId) # 0
  THEN head
  ELSE Append(head,
              StyleElement(ProviderStyleId, cfg.duration, cfg.easing, p))

\* an effect that returns its cleanup on the early return of line 191 too
StyleEffectReturnsCleanup_Always(head) == TRUE

StyleEffectReturnsCleanup(head) == GetElementById(head, ProviderStyleId) = 0

\* a cleanup that removes nothing
StyleCleanup_KeepsStyle(head) == head

\* The cleanup of the style effect (lines 215-220): whatever style carries the
\* id is removed.
StyleCleanup(head) ==
  IF GetElementById(head, ProviderStyleId) # 0
  THEN RemoveAt(head, GetElementById(head, ProviderStyleId))
  ELSE head

\* First render of a provider instance and its mount effects.
MagicMoveProvider(p, cfg) ==
  /\ status[p] = "unmounted"
  /\ status' = [status EXCEPT ![p] = "mounted"]
  /\ isTransitioning' = [isTransitioning EXCEPT ![p] = FALSE]
  /\ elements' = [elements EXCEPT ![p] = {}]
  /\ config' = [config EXCEPT ![p] = cfg]
  /\ styles' = StyleEffect(styles, p, cfg)
  /\ hasCleanup' = [hasCleanup EXCEPT ![p] = StyleEffectReturnsCleanup(styles)]
  /\ UNCHANGED <<supported, held, calls, last, wrappers, rendered, list>>

\* a render with changed props after which the cleanup runs and the effect
\* does not
Rerender_CleanupOnly(p, cfg) ==
  /\ status[p] = "mounted"
  /\ cfg # config[p]
  /\ config' = [config EXCEPT ![p] = cfg]
  /\ styles' = IF hasCleanup[p] THEN StyleCleanup(styles) ELSE styles
  /\ hasCleanup' = [hasCleanup EXCEPT ![p] = FALSE]
  /\ UNCHANGED <<supported, status, isTransitioning, elements, held, calls,
                 last, wrappers, rendered, list>>

\* A render of a mounted provider with a changed duration or easing prop: the
\* dependency list of line 221 makes React run the cleanup the effect returned
\* last time, if it returned one, and then the effect again.
Rerender(p, cfg) ==
  /\ status[p] = "mounted"
  /\ cfg # config[p]
  /\ config' = [config EXCEPT ![p] = cfg]
  /\ LET head == IF hasCleanup[p] THEN StyleCleanup(styles) ELSE styles IN
     /\ styles' = StyleEffect(head, p, cfg)
     /\ hasCleanup' =
          [hasCleanup EXCEPT ![p] = StyleEffectReturnsCleanup(head)]
  /\ UNCHANGED <<supported, status, isTransitioning, elements, held, calls,
                 last, wrappers, rendered, list>>

\* Teardown of a provider instance: its effect cleanups run and its props and
\* state cells are discarded; closures handed out earlier stay callable. The
\* MagicMove instances below it leave the document with it, and their
\* cleanups are left to the next flush of passive effects.
Unmount(p) ==
  /\ status[p] = "mounted"
  /\ status' = [status EXCEPT ![p] = "torn"]
  /\ isTransitioning' = [isTransitioning EXCEPT ![p] = FALSE]
  /\ styles' = IF hasCleanup[p] THEN StyleCleanup(styles) ELSE styles
  /\ hasCleanup' = [hasCleanup EXCEPT ![p] = FALSE]
  /\ config' = [config EXCEPT ![p] = NoProps]
  /\ wrappers' = [w \in DOMAIN wrappers |->
                    IF wrappers[w].under = p
                    THEN [wrappers[w] EXCEPT !.tag = "none"]
                    ELSE wrappers[w]]
  /\ UNCHANGED <<supported, elements, held, calls, last, rendered, list>>

\* ----------------------------------------------------------- context access

\* useMagicMoveContext in a consumer rendered below provider p: the context
\* value is returned, and the consumer keeps its closures.
useMagicMoveContext(p) ==
  /\ status[p] = "mounted"
  /\ held' = held \cup {p}
  /\ last' = [NoOp EXCEPT !.op = "useMagicMoveContext", !.p = p]
  /\ UNCHANGED <<supported, status, isTransitioning, elements, config,
                 hasCleanup, styles, calls, wrappers, rendered, list>>

\* useMagicMoveContext in a consumer with no provider above it: the context
\* is null and the hook throws.
useMagicMoveContextOutside ==
  /\ last' = [NoOp EXCEPT !.op = "useMagicMoveContext", !.threw = "Error"]
  /\ UNCHANGED <<supported, status, isTransitioning, elements, held, config,
                 hasCleanup, styles, calls, wrappers, rendered, list>>

\* ------------------------------------------------------------------ registry

\* registerElement without its null branch: every call is a Map.set
RegisterIn_NoNullCheck(map, id, element) == MapSet(map, id, element)

\* registerElement storing its entry in a new, otherwise empty Map
RegisterIn_FreshMap(map, id, element) ==
  IF element # Null THEN {<<id, element>>} ELSE MapDelete(map, id)

\* the body of registerElement (lines 120-124) on the provider's Map
RegisterIn(map, id, element) ==
  IF element # Null THEN MapSet(map, id, element) ELSE MapDelete(map, id)

\* unregisterElement emptying the Map instead of deleting one key
UnregisterIn_Clear(map, id) == {}

\* the body of unregisterElement (line 135) on the provider's Map
UnregisterIn(map, id) == MapDelete(map, id)

\* registerElement of provider p's context value, called through a closure a
\* consumer holds.
registerElement(p, id, element) ==
  /\ p \in held
  /\ elements' = [elements EXCEPT ![p] = RegisterIn(@, id, element)]
  /\ last' = [NoOp EXCEPT !.op = "registerElement", !.p = p, !.id = id,
                          !.el = element, !.old = MapGet(elements[p], id)]
  /\ UNCHANGED <<supported, status, isTransitioning, held, config,
                 hasCleanup, styles, calls, wrappers, rendered, list>>

\* unregisterElement of provider p's context value.
unregisterElement(p, id) ==
  /\ p \in held
  /\ elements' = [elements EXCEPT ![p] = UnregisterIn(@, id)]
  /\ last' = [NoOp EXCEPT !.op = "unregisterElement", !.p = p, !.id = id,
                          !.old = MapGet(elements[p], id)]
  /\ UNCHANGED <<supported, status, isTransitioning, held, config,
                 hasCleanup, styles, calls, wrappers, rendered, list>>

\* ------------------------------------------------------ MagicMove wrappers

\* the DOM element a MagicMove instance renders and holds in its ref
ElementOf(w) == IF w = Wrappers[1] THEN "e1" ELSE "e2"

\* the effect of lines 152-160 of this instance is due: the name it rendered
\* with is not the name its last effect run saw
Pending(w) == wrappers[w].tag # wrappers[w].reg

\* layoutId ?? id: the fallback taken only when layoutId is left out
ViewTransitionName_Nullish(layoutId, id) ==
  IF layoutId = Absent THEN id ELSE layoutId[1]

\* layoutId || id (MagicMove.tsx 146, MagicMoveImage.tsx 119): the first
\* operand unless it is falsy, which for a string prop is undefined or ""
ViewTransitionName(layoutId, id) ==
  IF layoutId = Absent \/ layoutId[1] = "" THEN id ELSE layoutId[1]

\* the element both components return (MagicMove.tsx 164-179,
\* MagicMoveImage.tsx 122-135), with the props of the render
Element(component, w, id, layoutId) ==
  LET viewTransitionName == ViewTransitionName(layoutId, id)
  IN [component |-> component, w |-> w, id |-> id, layoutId |-> layoutId,
      style |-> [viewTransitionName |-> viewTransitionName],
      dataMagicMoveId |-> viewTransitionName]

\* MagicMove (MagicMove.tsx 129-180) rendered below provider p with the props
\* id and layoutId: the context is read (line 141), the element is committed
\* with the transition name layoutId || id as its viewTransitionName and its
\* data-magic-move-id (lines 164-176), and the effect, closed over that name,
\* is left pending when the name is new.
MagicMove(w, p, id, layoutId) ==
  /\ status[p] = "mounted"
  /\ wrappers[w].under \in {"none", p}
  /\ wrappers' = [wrappers EXCEPT ![w] =
                    [@ EXCEPT !.under = p,
                              !.tag = ViewTransitionName(layoutId, id)]]
  /\ rendered' = Element("MagicMove", w, id, layoutId)
  /\ held' = held \cup {p}
  /\ UNCHANGED <<supported, status, isTransitioning, elements, config,
                 hasCleanup, styles, calls, last, list>>

\* MagicMoveImage (MagicMoveImage.tsx 117-136) rendered with the props id and
\* layoutId: it reads no context and registers nowhere.
MagicMoveImage(id, layoutId) ==
  /\ rendered' = Element("MagicMoveImage", "none", id, layoutId)
  /\ UNCHANGED <<supported, status, isTransitioning, elements, held, config,
                 hasCleanup, styles, calls, wrappers, last, list>>

\* A MagicMove instance leaves the tree: its element is removed, its cleanup
\* is left pending.
MagicMoveUnmount(w) ==
  /\ wrappers[w].tag # "none"
  /\ wrappers' = [wrappers EXCEPT ![w].tag = "none"]
  /\ UNCHANGED <<supported, status, isTransitioning, elements, held, config,
                 hasCleanup, styles, calls, last, rendered, list>>

\* a cleanup that unregisters nothing
WrapperCleanup_Nothing(map, r) == map

\* a cleanup that reads the name of the current render
WrapperCleanup_CurrentName(map, r) == UnregisterIn(map, r.tag)

\* the cleanup of line 158, closed over the name of the render it belongs to
WrapperCleanup(map, r) == UnregisterIn(map, r.reg)

\* an effect that registers under the name of the render before, when there
\* was one
WrapperEffect_StaleName(map, w, r) ==
  RegisterIn(map, IF r.reg # "none" THEN r.reg ELSE r.tag, ElementOf(w))

\* the effect body of lines 153-156
WrapperEffect(map, w, r) == RegisterIn(map, r.tag, ElementOf(w))

\* React runs the cleanups of every instance whose effect is due, in tree
\* order, on the Map of the provider the instance read
RECURSIVE RunCleanups(_, _)
RunCleanups(els, i) ==
  IF i > Len(Wrappers) THEN els
  ELSE LET w == Wrappers[i]
           r == wrappers[w]
       IN RunCleanups(IF Pending(w) /\ r.reg # "none"
                      THEN [els EXCEPT ![r.under] = WrapperCleanup(@, r)]
                      ELSE els,
                      i + 1)

\* and after all cleanups the effect bodies, in tree order
RECURSIVE RunEffects(_, _)
RunEffects(els, i) ==
  IF i > Len(Wrappers) THEN els
  ELSE LET w == Wrappers[i]
           r == wrappers[w]
       IN RunEffects(IF Pending(w) /\ r.tag # "none"
                     THEN [els EXCEPT ![r.under] = WrapperEffect(@, w, r)]
                     ELSE els,
                     i + 1)

\* React flushes the passive effects of the commits so far.
FlushPassiveEffects ==
  /\ \E w \in Range(Wrappers) : Pending(w)
  /\ elements' = RunEffects(RunCleanups(elements, 1), 1)
  /\ wrappers' = [w \in DOMAIN wrappers |->
                    IF Pending(w)
                    THEN [wrappers[w] EXCEPT !.reg = wrappers[w].tag,
                                             !.prev = wrappers[w].reg]
                    ELSE wrappers[w]]
  /\ UNCHANGED <<supported, status, isTransitioning, held, config,
                 hasCleanup, styles, calls, last, rendered, list>>

\* ------------------------------------------------------------- list wrapper

\* a row named after its position in the array
Row_ByIndex(transitionPrefix, key, index) ==
  LET viewTransitionName == transitionPrefix \o "-" \o ToString(index)
  IN [key |-> key, style |-> [viewTransitionName |-> viewTransitionName],
      dataMagicMoveId |-> viewTransitionName]

\* the <div> of lines 171-182 for the item with this key at this index
Row(transitionPrefix, key, index) ==
  LET viewTransitionName == transitionPrefix \o "-" \o key
  IN [key |-> key, style |-> [viewTransitionName |-> viewTransitionName],
      dataMagicMoveId |-> viewTransitionName]

\* MagicMoveList (MagicMoveList.tsx 159-186) rendered with these items and
\* this transitionPrefix prop, for the first time or again: items.map gives
\* one row per item, in the order of the array.
MagicMoveList(items, transitionPrefix) ==
  LET prefix == IF transitionPrefix = Absent THEN DefaultPrefix
                ELSE transitionPrefix[1]
  IN /\ list' = [transitionPrefix |-> transitionPrefix,
                 rows |-> [i \in 1..Len(items) |->
                             Row(prefix, items[i], i - 1)],
                 before |-> [transitionPrefix |-> list.transitionPrefix,
                             rows |-> list.rows]]
     /\ UNCHANGED <<supported, status, isTransitioning, elements, held,
                    config, hasCleanup, styles, calls, wrappers, rendered,
                    last>>

\* --------------------------------------------------------------- callbacks

\* A callback handed to the library: who it was handed to, whether it throws,
\* where the platform is with it ("direct" when it ran on the fallback path,
\* else "pending", "called", then "fulfilled" or "rejected" for the finished
\* promise), how often it has been invoked, how far its state update has got
\* ("none", "queued" in React, "applied" to the DOM), and whether a promise the
\* library derived from the finished promise is rejected with no handler.
NewCall(owner, throws, phase) ==
  [owner |-> owner, throws |-> throws, phase |-> phase, invoked |-> 0,
   effect |-> "none", unhandled |-> FALSE]

\* callback(): a throwing callback updates nothing, any other queues its
\* state update with React
Invoke(c) ==
  [c EXCEPT !.invoked = @ + 1,
            !.effect = IF c.throws THEN @ ELSE "queued"]

\* React applying every queued state update to the DOM
CommitAll(cs) ==
  [i \in DOMAIN cs |->
     IF cs[i].effect = "queued" THEN [cs[i] EXCEPT !.effect = "applied"]
     ELSE cs[i]]

\* the update callback flushing React without calling the callback
FlushSync_NoCallback(cs, i) == CommitAll(cs)

\* the update callback calling the callback outside flushSync
FlushSync_Deferred(cs, i) == [cs EXCEPT ![i] = Invoke(@)]

\* flushSync(() => { callback(); }): the callback runs and React commits
\* before flushSync returns, also when the callback throws
FlushSync(cs, i) == CommitAll([cs EXCEPT ![i] = Invoke(@)])

\* a setState of an unmounted component changes nothing
SetIsTransitioning(p, value) ==
  IF status[p] = "mounted"
  THEN [isTransitioning EXCEPT ![p] = value]
  ELSE isTransitioning

Unsettled(c) == c.phase \in {"pending", "called"}

\* startTransition without the capability check of lines 157-160
startTransition_NoCapabilityCheck(p, throws) ==
  /\ p \in held
  /\ Len(calls) < MaxCalls
  /\ isTransitioning' = SetIsTransitioning(p, TRUE)
  /\ calls' = Append(calls, NewCall(p, throws, "pending"))
  /\ last' = [NoOp EXCEPT !.op = "startTransition", !.p = p]
  /\ UNCHANGED <<supported, status, elements, held, config, hasCleanup,
                 styles, wrappers, rendered, list>>

\* startTransition emptying the registry before it starts
StartTransitionBody_ClearsRegistry(p, throws, op) ==
  /\ Len(calls) < MaxCalls
  /\ elements' = [elements EXCEPT ![p] = {}]
  /\ IF ~supported
     THEN /\ calls' = Append(calls, Invoke(NewCall(p, throws, "direct")))
          /\ isTransitioning' = isTransitioning
          /\ last' = [NoOp EXCEPT !.op = op, !.p = p,
                        !.threw = IF throws THEN "CallbackError" ELSE "none"]
     ELSE /\ isTransitioning' = SetIsTransitioning(p, TRUE)
          /\ calls' = Append(calls, NewCall(p, throws, "pending"))
          /\ last' = [NoOp EXCEPT !.op = op, !.p = p]
  /\ UNCHANGED <<supported, status, held, config, hasCleanup, styles,
                 wrappers, rendered, list>>

\* startTransition setting the flag before the capability check
StartTransitionBody_FlagBeforeCheck(p, throws, op) ==
  /\ Len(calls) < MaxCalls
  /\ isTransitioning' = SetIsTransitioning(p, TRUE)
  /\ IF ~supported
     THEN /\ calls' = Append(calls, Invoke(NewCall(p, throws, "direct")))
          /\ last' = [NoOp EXCEPT !.op = op, !.p = p,
                        !.threw = IF throws THEN "CallbackError" ELSE "none"]
     ELSE /\ calls' = Append(calls, NewCall(p, throws, "pending"))
          /\ last' = [NoOp EXCEPT !.op = op, !.p = p]
  /\ UNCHANGED <<supported, status, elements, held, config, hasCleanup,
                 styles, wrappers, rendered, list>>

\* startTransition catching what the callback throws on the fallback path
StartTransitionBody_SwallowsError(p, throws, op) ==
  /\ Len(calls) < MaxCalls
  /\ IF ~supported
     THEN /\ calls' = Append(calls, Invoke(NewCall(p, throws, "direct")))
          /\ isTransitioning' = isTransitioning
          /\ last' = [NoOp EXCEPT !.op = op, !.p = p]
     ELSE /\ isTransitioning' = SetIsTransitioning(p, TRUE)
          /\ calls' = Append(calls, NewCall(p, throws, "pending"))
          /\ last' = [NoOp EXCEPT !.op = op, !.p = p]
  /\ UNCHANGED <<supported, status, elements, held, config, hasCleanup,
                 styles, wrappers, rendered, list>>

\* The body of startTransition of provider p's context value (lines 154-179),
\* entered through the function of the public API named by op.
StartTransitionBody(p, throws, op) ==
  /\ Len(calls) < MaxCalls
  /\ IF ~supported
     THEN /\ calls' = Append(calls, Invoke(NewCall(p, throws, "direct")))
          /\ isTransitioning' = isTransitioning
          /\ last' = [NoOp EXCEPT !.op = op, !.p = p,
                        !.threw = IF throws THEN "CallbackError" ELSE "none"]
     ELSE /\ isTransitioning' = SetIsTransitioning(p, TRUE)
          /\ calls' = Append(calls, NewCall(p, throws, "pending"))
          /\ last' = [NoOp EXCEPT !.op = op, !.p = p]
  /\ UNCHANGED <<supported, status, elements, held, config, hasCleanup,
                 styles, wrappers, rendered, list>>

\* startTransition of provider p's context value, called through a closure a
\* consumer holds.
startTransition(p, throws) ==
  /\ p \in held
  /\ StartTransitionBody(p, throws, "startTransition")

\* a trigger that calls the callback itself and asks for no view transition
trigger_CallsCallbackItself(p, throws) ==
  /\ p \in held
  /\ Len(calls) < MaxCalls
  /\ calls' = Append(calls, Invoke(NewCall(p, throws, "direct")))
  /\ last' = [NoOp EXCEPT !.op = "trigger", !.p = p,
                          !.threw = IF throws THEN "CallbackError" ELSE "none"]
  /\ UNCHANGED <<supported, status, isTransitioning, elements, held, config,
                 hasCleanup, styles, wrappers, rendered, list>>

\* trigger of useMagicMove (useMagicMove.ts 132-137) in a consumer rendered
\* below provider p: the hook took startTransition from useMagicMoveContext
\* (line 118) and trigger hands its callback to it.
trigger(p, throws) ==
  /\ p \in held
  /\ StartTransitionBody(p, throws, "trigger")

\* isAnimating of useMagicMove (useMagicMove.ts 118 and 150): the
\* isTransitioning of the context value, under another name
isAnimating(p) == isTransitioning[p]

\* line 213: the options of a call with the defaults for what is left out
Destructure(options) ==
  [duration |-> IF options.duration = Absent THEN DefaultDuration
                ELSE options.duration[1],
   easing |-> IF options.easing = Absent THEN DefaultEasing
              ELSE options.easing[1]]

\* triggerMagicMove writing the text of its style only when it creates it
TempStyle_WrittenOnceOnly(head, options) ==
  IF GetElementById(head, TempStyleId) = 0
  THEN Append(head, StyleElement(TempStyleId, Destructure(options).duration,
                                 Destructure(options).easing, Standalone))
  ELSE head

\* lines 213-238 of triggerMagicMove: the temp style is created when missing
\* and its text is rewritten with this call's timing
TempStyle(head, options) ==
  LET duration == Destructure(options).duration
      easing == Destructure(options).easing
      h == IF GetElementById(head, TempStyleId) = 0
           THEN Append(head,
                       StyleElement(TempStyleId, duration, easing, Standalone))
           ELSE head
  IN [h EXCEPT ![GetElementById(h, TempStyleId)] =
        StyleElement(TempStyleId, duration, easing, Standalone)]

\* triggerMagicMove writing its style before the capability check
triggerMagicMove_StyleBeforeCheck(throws, options) ==
  /\ Len(calls) < MaxCalls
  /\ styles' = TempStyle(styles, options)
  /\ IF ~supported
     THEN /\ calls' =
               Append(calls, Invoke(NewCall(Standalone, throws, "direct")))
          /\ last' = [NoOp EXCEPT !.op = "triggerMagicMove",
                        !.options = options,
                        !.threw = IF throws THEN "CallbackError" ELSE "none"]
     ELSE /\ calls' = Append(calls, NewCall(Standalone, throws, "pending"))
          /\ last' = [NoOp EXCEPT !.op = "triggerMagicMove",
                                  !.options = options]
  /\ UNCHANGED <<supported, status, isTransitioning, elements, held, config,
                 hasCleanup, wrappers, rendered, list>>

\* triggerMagicMove (lines 191-247), the standalone trigger.
triggerMagicMove(throws, options) ==
  /\ Len(calls) < MaxCalls
  /\ IF ~supported
     THEN /\ calls' =
               Append(calls, Invoke(NewCall(Standalone, throws, "direct")))
          /\ styles' = styles
          /\ last' = [NoOp EXCEPT !.op = "triggerMagicMove",
                        !.options = options,
                        !.threw = IF throws THEN "CallbackError" ELSE "none"]
     ELSE /\ styles' = TempStyle(styles, options)
          /\ calls' = Append(calls, NewCall(Standalone, throws, "pending"))
          /\ last' = [NoOp EXCEPT !.op = "triggerMagicMove",
                                  !.options = options]
  /\ UNCHANGED <<supported, status, isTransitioning, elements, held, config,
                 hasCleanup, wrappers, rendered, list>>

\* The platform calls the update callback of transition i, the arrow function
\* of lines 167-173 (242-246 for the standalone trigger); callbacks are called
\* in the order the transitions were requested.
RenderStep(i) ==
  /\ i \in DOMAIN calls
  /\ calls[i].phase = "pending"
  /\ \A j \in 1..(i - 1) : calls[j].phase # "pending"
  /\ calls' = [FlushSync(calls, i) EXCEPT ![i].phase = "called"]
  /\ UNCHANGED <<supported, status, isTransitioning, elements, held, config,
                 hasCleanup, styles, last, wrappers, rendered, list>>

\* what the handlers attached in lines 176-178 do when finished settles: the
\* finally callback runs, and the promise finally returns takes the outcome
OnFinished(c, outcome) ==
  IF c.owner = Standalone
  THEN [c EXCEPT !.phase = outcome]
  ELSE [c EXCEPT !.phase = outcome, !.unhandled = (outcome = "rejected")]

\* the reset of lines 176-178 attached by triggerMagicMove as well, for every
\* mounted provider
FinallyCallback_AlsoStandalone(c, outcome) ==
  IF c.owner = Standalone
  THEN [p \in Instances |-> FALSE]
  ELSE SetIsTransitioning(c.owner, FALSE)

\* the reset attached with then instead of finally: it runs on fulfilment only
FinallyCallback_OnFulfilOnly(c, outcome) ==
  IF c.owner = Standalone \/ outcome = "rejected" THEN isTransitioning
  ELSE SetIsTransitioning(c.owner, FALSE)

FinallyCallback(c, outcome) ==
  IF c.owner = Standalone THEN isTransitioning
  ELSE SetIsTransitioning(c.owner, FALSE)

\* how the platform settles the finished promise of a transition: rejected
\* when its update callback threw, fulfilled otherwise, skipped or not
FinishedOutcome(c) == IF c.throws THEN "rejected" ELSE "fulfilled"

\* The finished promise of transition i settles, in the order the transitions
\* were requested, and the handlers of lines 176-178 run.
Settle(i) ==
  /\ i \in DOMAIN calls
  /\ calls[i].phase = "called"
  /\ \A j \in 1..(i - 1) : ~Unsettled(calls[j])
  /\ calls' = [calls EXCEPT ![i] = OnFinished(@, FinishedOutcome(@))]
  /\ isTransitioning' = FinallyCallback(calls[i], FinishedOutcome(calls[i]))
  /\ UNCHANGED <<supported, status, elements, held, config, hasCleanup,
                 styles, last, wrappers, rendered, list>>

\* React commits the state updates queued outside flushSync.
ReactCommit ==
  /\ \E i \in DOMAIN calls : calls[i].effect = "queued"
  /\ calls' = CommitAll(calls)
  /\ UNCHANGED <<supported, status, isTransitioning, elements, held, config,
                 hasCleanup, styles, last, wrappers, rendered, list>>

\* ------------------------------------------------------------ specification

Next ==
  \/ \E p \in Providers, cfg \in Configs : MagicMoveProvider(p, cfg)
  \/ \E p \in Providers : Unmount(p)
  \/ \E p \in Providers, cfg \in Configs : Rerender(p, cfg)
  \/ \E p \in Providers : useMagicMoveContext(p)
  \/ useMagicMoveContextOutside
  \/ \E p \in Providers, id \in Ids, element \in Elements \cup {Null} :
       registerElement(p, id, element)
  \/ \E p \in Providers, id \in Ids : unregisterElement(p, id)
  \/ \E p \in Providers, throws \in BOOLEAN : startTransition(p, throws)
  \/ \E p \in Providers, throws \in BOOLEAN : trigger(p, throws)
  \/ \E throws \in BOOLEAN, options \in Options :
       triggerMagicMove(throws, options)
  \/ \E i \in 1..MaxCalls : RenderStep(i)
  \/ \E i \in 1..MaxCalls : Settle(i)
  \/ ReactCommit

Spec == Init /\ [][Next]_vars

\* The host keeps its promises: the platform calls every update callback and
\* settles every finished promise, and React commits every queued update.
Fairness ==
  /\ WF_vars(\E i \in 1..MaxCalls : RenderStep(i))
  /\ WF_vars(\E i \in 1..MaxCalls : Settle(i))
  /\ WF_vars(ReactCommit)

\* The transition protocol by itself: the steps that hand in callbacks and the
\* host's steps on them, with the provider's lifecycle. The registry
\* operations are left out: they neither read nor write what these steps do.
NextProtocol ==
  \/ \E p \in Providers, cfg \in Configs : MagicMoveProvider(p, cfg)
  \/ \E p \in Providers : Unmount(p)
  \/ \E p \in Providers, cfg \in Configs : Rerender(p, cfg)
  \/ \E p \in Providers : useMagicMoveContext(p)
  \/ \E p \in Providers, throws \in BOOLEAN : startTransition(p, throws)
  \/ \E p \in Providers, throws \in BOOLEAN : trigger(p, throws)
  \/ \E throws \in BOOLEAN, options \in Options :
       triggerMagicMove(throws, options)
  \/ \E i \in 1..MaxCalls : RenderStep(i)
  \/ \E i \in 1..MaxCalls : Settle(i)
  \/ ReactCommit

FairSpec == Init /\ [][NextProtocol]_vars /\ Fairness

\* The style elements by themselves, in an application that constructs more
\* than one provider: every step that reads or writes document.head, with the
\* transitions the styles apply to. The registry is left out.
NextStyles ==
  \/ \E p \in Instances, cfg \in Configs : MagicMoveProvider(p, cfg)
  \/ \E p \in Instances : Unmount(p)
  \/ \E p \in Instances, cfg \in Configs : Rerender(p, cfg)
  \/ \E p \in Instances : useMagicMoveContext(p)
  \/ \E p \in Instances, throws \in BOOLEAN : startTransition(p, throws)
  \/ \E throws \in BOOLEAN, options \in Options :
       triggerMagicMove(throws, options)
  \/ \E i \in 1..MaxCalls : RenderStep(i)
  \/ \E i \in 1..MaxCalls : Settle(i)
  \/ ReactCommit

StyleSpec == Init /\ [][NextStyles]_vars

\* The registry as the MagicMove wrappers drive it: the provider's lifecycle,
\* the renders and removals of the wrappers below it and the flushes of
\* their effects, with the renders of MagicMoveImage, which tags its element
\* the same way. Nothing else calls registerElement or unregisterElement.
NextWrappers ==
  \/ \E p \in Providers, cfg \in Configs : MagicMoveProvider(p, cfg)
  \/ \E p \in Providers : Unmount(p)
  \/ \E w \in Range(Wrappers), p \in Providers, id \in Ids,
          layoutId \in LayoutIds :
       MagicMove(w, p, id, layoutId)
  \/ \E id \in Ids, layoutId \in LayoutIds : MagicMoveImage(id, layoutId)
  \/ \E w \in Range(Wrappers) : MagicMoveUnmount(w)
  \/ FlushPassiveEffects

WrapperSpec == Init /\ [][NextWrappers]_vars

\* The list wrapper by itself: it reads no context and keeps no state, so its
\* renders are all there is.
NextList ==
  \E items \in Items, transitionPrefix \in Prefixes :
    MagicMoveList(items, transitionPrefix)

ListSpec == Init /\ [][NextList]_vars

\* The registry as application code drives it through the context value: the
\* provider's lifecycle, the access to its context and the two registry
\* operations.
NextRegistry ==
  \/ \E p \in Providers, cfg \in Configs : MagicMoveProvider(p, cfg)
  \/ \E p \in Providers : Unmount(p)
  \/ \E p \in Providers : useMagicMoveContext(p)
  \/ \E p \in Providers, id \in Ids, element \in Elements \cup {Null} :
       registerElement(p, id, element)
  \/ \E p \in Providers, id \in Ids : unregisterElement(p, id)

RegistrySpec == Init /\ [][NextRegistry]_vars

\* ------------------------------------------------------------------- claims

OrchestratorCalls == {i \in DOMAIN calls : calls[i].owner \in Instances}

\* a step in which a callback is handed to startTransition of some provider
IsStartTransitionStep ==
  /\ Len(calls') = Len(calls) + 1
  /\ calls'[Len(calls')].owner \in Instances

\* C1: when document.startViewTransition is missing, startTransition(m) calls
\* m exactly once before it returns and does nothing else: what m does and
\* throws is what the caller gets, isTransitioning is false in every state and
\* unchanged by the call, and neither the registry, the styles nor any other
\* callback is touched.
C1_FallbackIsDirectCall ==
  /\ [](~supported => \A p \in Providers : ~isTransitioning[p])
  /\ [][(~supported /\ IsStartTransitionStep) =>
          LET c == calls'[Len(calls')] IN
          /\ c.phase = "direct"
          /\ c.invoked = 1
          /\ c.effect = IF c.throws THEN "none" ELSE "queued"
          /\ last'.threw = IF c.throws THEN "CallbackError" ELSE "none"
          /\ SubSeq(calls', 1, Len(calls)) = calls
          /\ isTransitioning' = isTransitioning
          /\ elements' = elements
          /\ styles' = styles]_vars

\* C1 witness: on an unsupported platform startTransition has just run a
\* callback directly while the registry held an entry.
C1_Witness ==
  /\ ~supported
  /\ last.op = "startTransition"
  /\ calls # <<>>
  /\ calls[Len(calls)].phase = "direct"
  /\ calls[Len(calls)].invoked = 1
  /\ elements[last.p] # {}

\* C2 (as claimed): at most one transition requested by the orchestrator has
\* an unsettled finished promise, in every reachable state.
C2_AtMostOneUnsettled ==
  Cardinality({i \in OrchestratorCalls : Unsettled(calls[i])}) <= 1

\* C3 (as claimed): while the finished promise of a transition requested
\* through a mounted provider is unsettled, that provider's isTransitioning is
\* true.
C3_TrueWhileUnsettled ==
  \A i \in OrchestratorCalls :
    (status[calls[i].owner] = "mounted" /\ Unsettled(calls[i]))
      => isTransitioning[calls[i].owner]

\* C4: the step in which the finished promise of a transition of a provider
\* settles, fulfilled or rejected, leaves isTransitioning false; while no
\* further startTransition is called a false isTransitioning stays false; and
\* when every finished promise settles, isTransitioning is eventually false
\* for good.
C4_SettlesToIdle ==
  /\ [][\A i \in OrchestratorCalls :
          (calls[i].phase = "called" /\ calls'[i].phase \in {"fulfilled", "rejected"})
            => ~isTransitioning'[calls[i].owner]]_vars
  /\ [][\A p \in Providers :
          (~isTransitioning[p] /\ ~IsStartTransitionStep) => ~isTransitioning'[p]]_vars
  /\ <>[](\A p \in Providers : ~isTransitioning[p])

\* C4 witness: a mounted provider is idle again after one of its transitions
\* was rejected and another was fulfilled.
C4_Witness ==
  \E i, j \in OrchestratorCalls :
    /\ calls[i].phase = "rejected"
    /\ calls[j].phase = "fulfilled"
    /\ calls[i].owner = calls[j].owner
    /\ status[calls[i].owner] = "mounted"
    /\ ~isTransitioning[calls[i].owner]

\* C5 (as claimed): a rejected finished promise is swallowed: startTransition
\* on a supported platform throws nothing to its caller, and no promise the
\* orchestrator derived from the finished promise is rejected without a
\* handler.
C5_FailureSwallowed ==
  /\ (supported /\ last.op = "startTransition") => last.threw = "none"
  /\ \A i \in OrchestratorCalls :
       calls[i].phase = "rejected" => ~calls[i].unhandled

\* C6: every callback handed to startTransition or triggerMagicMove is never
\* invoked twice, is invoked before the call returns on the fallback path, and
\* is in the end invoked exactly once with its state update applied (a callback
\* that throws updates nothing), whatever the platform support, the outcome of
\* the animation and the overlap with other transitions.
C6_EveryMutationOnce ==
  /\ [](\A i \in DOMAIN calls :
          /\ calls[i].invoked <= 1
          /\ calls[i].phase = "direct" => calls[i].invoked = 1)
  /\ \A i \in 1..MaxCalls :
       (i \in DOMAIN calls)
         ~> (/\ i \in DOMAIN calls
             /\ calls[i].invoked = 1
             /\ ~calls[i].throws => calls[i].effect = "applied")

\* C6 witness: a second transition was requested while the first was unsettled,
\* and the first callback has run once with its update applied.
C6_Witness ==
  /\ Len(calls) = 2
  /\ calls[1].phase = "called"
  /\ calls[1].invoked = 1
  /\ calls[1].effect = "applied"
  /\ calls[2].phase = "pending"
  /\ calls[1].owner \in Providers
  /\ calls[2].owner \in Providers

\* C7: on a supported platform a callback is invoked only in the step in which
\* the platform calls the update callback of its transition, and its state
\* update is applied to the DOM when that step ends; so from then on, and in
\* particular once the finished promise has settled, the update is applied.
C7_AppliedInsideRenderStep ==
  /\ [][\A i \in DOMAIN calls' :
          (supported /\ calls'[i].invoked >
             (IF i \in DOMAIN calls THEN calls[i].invoked ELSE 0))
            => /\ i \in DOMAIN calls
               /\ calls[i].phase = "pending"
               /\ calls'[i].phase = "called"
               /\ ~calls'[i].throws => calls'[i].effect = "applied"]_vars
  /\ [](\A i \in DOMAIN calls :
          (supported /\ calls[i].phase \in {"called", "fulfilled", "rejected"})
            => /\ calls[i].invoked = 1
               /\ ~calls[i].throws => calls[i].effect = "applied")

\* C7 witness: the update callback of a provider's transition has returned,
\* the finished promise is not settled yet, and the update is in the DOM.
C7_Witness ==
  \E i \in OrchestratorCalls :
    /\ supported
    /\ calls[i].phase = "called"
    /\ ~calls[i].throws
    /\ calls[i].effect = "applied"

\* a step in which registerElement, resp. unregisterElement, was called: the
\* record of the call in last names the provider, the id and the element
IsRegisterStep == last' # last /\ last'.op = "registerElement"

IsUnregisterStep == last' # last /\ last'.op = "unregisterElement"

\* C8: a registerElement(id, element) step with a non-null element leaves
\* exactly one entry for id, holding element, whatever was registered before;
\* with a null element it leaves the registry as unregisterElement(id) would.
C8_RegisterStoresOrReplaces ==
  [][IsRegisterStep =>
       LET p == last'.p
           id == last'.id
           element == last'.el
       IN /\ element # Null =>
               {e \in elements'[p] : e[1] = id} = {<<id, element>>}
          /\ element = Null =>
               /\ elements'[p] = UnregisterIn(elements[p], id)
               /\ ~MapHas(elements'[p], id)]_vars

\* C8 witness: registerElement has just replaced one element by another under
\* the same id.
C8_Witness ==
  /\ last.op = "registerElement"
  /\ last.old \in Elements
  /\ last.el \in Elements
  /\ last.old # last.el
  /\ {e \in elements[last.p] : e[1] = last.id} = {<<last.id, last.el>>}

\* C9: an unregisterElement(id) step leaves no entry for id, keeps every
\* other entry and throws nothing; when id had no entry the registry is
\* unchanged, so a second unregister is a no-op.
C9_UnregisterIdempotent ==
  [][IsUnregisterStep =>
       LET p == last'.p
           id == last'.id
       IN /\ ~MapHas(elements'[p], id)
          /\ \A e \in elements[p] : e[1] # id => e \in elements'[p]
          /\ ~MapHas(elements[p], id) => elements'[p] = elements[p]
          /\ last'.threw = "none"]_vars

\* C9 witness: unregisterElement has just been called for an id with no entry
\* while another id was registered.
C9_Witness ==
  /\ last.op = "unregisterElement"
  /\ last.old = Null
  /\ elements[last.p] # {}

\* C10 (as claimed): startTransition and registerElement of a provider that is
\* not mounted throw an error, run no callback and leave the registry alone.
C10_OutsideScopeThrows ==
  [][\A p \in Providers :
       status[p] # "mounted" =>
         /\ \A throws \in BOOLEAN :
              startTransition(p, throws) =>
                (last'.threw = "Error" /\ calls' = calls)
         /\ \A id \in Ids, element \in Elements \cup {Null} :
              registerElement(p, id, element) =>
                (last'.threw = "Error" /\ elements' = elements)]_vars


\* the style element under the provider's id, when there is one
ProviderStyle(head) == head[GetElementById(head, ProviderStyleId)]

\* the style element under the standalone trigger's id, when there is one
TempStyleOf(head) == head[GetElementById(head, TempStyleId)]

\* C11: while a provider instance that created the style under
\* "magic-move-styles" stays mounted, that style stays in the document and
\* keeps the duration and easing it was created with, whatever step is taken,
\* a render with changed duration or easing props included.
C11_TimingFixedAtConstruction ==
  [][\A p \in Instances :
       (status[p] = "mounted" /\ status'[p] = "mounted" /\ hasCleanup[p]) =>
         /\ GetElementById(styles', ProviderStyleId) # 0
         /\ Timing(ProviderStyle(styles')) = Timing(ProviderStyle(styles))]_vars

\* a step in which a callback is handed to triggerMagicMove
IsTriggerMagicMoveStep ==
  /\ Len(calls') = Len(calls) + 1
  /\ calls'[Len(calls')].owner = Standalone

\* a step in which the style effect of provider p runs and no cleanup of p
\* runs before it: the mount of p, or a render of p with changed props after
\* an effect run that returned no cleanup
IsEnsureStep(p) ==
  \/ status[p] = "unmounted" /\ status'[p] = "mounted"
  \/ status[p] = "mounted" /\ config'[p] # config[p] /\ ~hasCleanup[p]

\* C12: the document never holds more than one style element under
\* "magic-move-styles" nor more than one under "magic-move-temp-styles"; a
\* style effect that finds a style under the provider's id leaves the document
\* as it is, and a triggerMagicMove call that finds a style under its id
\* creates no element: every style element stays where it is, under its id,
\* made by whoever made it.
C12_AtMostOneStylePerKey ==
  /\ [](/\ CountById(styles, ProviderStyleId) <= 1
        /\ CountById(styles, TempStyleId) <= 1)
  /\ [][\A p \in Instances :
          (IsEnsureStep(p) /\ GetElementById(styles, ProviderStyleId) # 0) =>
            styles' = styles]_vars
  /\ [][(IsTriggerMagicMoveStep /\ GetElementById(styles, TempStyleId) # 0) =>
          /\ Len(styles') = Len(styles)
          /\ \A i \in 1..Len(styles) :
               /\ styles'[i].id = styles[i].id
               /\ styles'[i].by = styles[i].by]_vars

\* two mounted providers of which the second, given other props, found the
\* style of the first, and a second triggerMagicMove call that found the style
\* of the first call
C12_Witness ==
  /\ \A p \in Instances : status[p] = "mounted"
  /\ \E p, q \in Instances :
       /\ hasCleanup[p] /\ ~hasCleanup[q]
       /\ ProviderStyle(styles).by = p
       /\ Timing(ProviderStyle(styles)) = config[p]
       /\ config[q] # config[p]
  /\ Len(calls) = 2
  /\ \A i \in DOMAIN calls : calls[i].owner = Standalone
  /\ Len(styles) = 2

\* C13: the provider whose effect created the style under "magic-move-styles"
\* holds the cleanup for it; its unmount removes exactly that one element and
\* nothing else, the unmount of a provider whose effect created nothing
\* leaves the document as it is, and no style made by an unmounted provider is
\* left in the document.
C13_ReleasedOnTeardown ==
  /\ [](\A p \in Instances :
          /\ hasCleanup[p] =>
               /\ GetElementById(styles, ProviderStyleId) # 0
               /\ ProviderStyle(styles).by = p
          /\ status[p] = "torn" =>
               \A i \in 1..Len(styles) : styles[i].by # p)
  /\ [][\A p \in Instances :
          (status[p] = "mounted" /\ status'[p] = "torn") =>
            IF hasCleanup[p]
            THEN /\ styles' = RemoveAt(styles,
                                       GetElementById(styles, ProviderStyleId))
                 /\ CountById(styles', ProviderStyleId) = 0
            ELSE styles' = styles]_vars

\* the provider that created the style is unmounted and the style is gone,
\* while a second provider, which found that style when it mounted, is still
\* mounted and the standalone trigger's style is still in the document
C13_Witness ==
  \E p, q \in Instances :
    /\ status[p] = "torn"
    /\ status[q] = "mounted" /\ ~hasCleanup[q]
    /\ GetElementById(styles, ProviderStyleId) = 0
    /\ GetElementById(styles, TempStyleId) # 0

\* C14: a triggerMagicMove call leaves the styles under "magic-move-styles"
\* as they are, a mount, re-render or unmount of a provider leaves the styles
\* under "magic-move-temp-styles" as they are, and while a transition started
\* through a mounted provider after a triggerMagicMove call animates, with the
\* provider's style in the document, the timing that applies is the
\* provider's duration and easing.
C14_StyleResourcesDoNotInterfere ==
  /\ [][IsTriggerMagicMoveStep =>
          ById(styles', ProviderStyleId) = ById(styles, ProviderStyleId)]_vars
  /\ [][(status' # status \/ config' # config) =>
          ById(styles', TempStyleId) = ById(styles, TempStyleId)]_vars
  /\ [](\A i \in OrchestratorCalls :
          (/\ calls[i].phase = "called"
           /\ \E j \in 1..(i - 1) : calls[j].owner = Standalone
           /\ status[calls[i].owner] = "mounted"
           /\ hasCleanup[calls[i].owner]) =>
            AppliedTiming(styles) = config[calls[i].owner])

\* C17: the style of a triggerMagicMove call applies to the transition of
\* that call only: once every transition requested by triggerMagicMove has
\* settled, a transition started through a mounted provider, with the
\* provider's style in the document, animates with the provider's duration
\* and easing.
C17_TempStyleIsTemporary ==
  \A i \in OrchestratorCalls :
    (/\ calls[i].phase = "called"
     /\ \E j \in 1..(i - 1) : calls[j].owner = Standalone
     /\ \A j \in DOMAIN calls :
          calls[j].owner = Standalone => ~Unsettled(calls[j])
     /\ status[calls[i].owner] = "mounted"
     /\ hasCleanup[calls[i].owner]) =>
      AppliedTiming(styles) = Timing(ProviderStyle(styles))

\* C15: when document.startViewTransition is missing, triggerMagicMove(m)
\* calls m exactly once before it returns, what m throws is what the caller
\* gets, and nothing else changes: no style is created or rewritten (no style
\* under "magic-move-temp-styles" ever exists), and no provider state, no
\* registry and no other callback is touched.
C15_TriggerFallbackIsDirectCall ==
  /\ [](~supported => GetElementById(styles, TempStyleId) = 0)
  /\ [][(~supported /\ IsTriggerMagicMoveStep) =>
          LET c == calls'[Len(calls')] IN
          /\ c.phase = "direct"
          /\ c.invoked = 1
          /\ last'.op = "triggerMagicMove"
          /\ last'.threw = (IF c.throws THEN "CallbackError" ELSE "none")
          /\ \A i \in DOMAIN calls : calls'[i] = calls[i]
          /\ UNCHANGED <<supported, status, isTransitioning, elements, held,
                         config, hasCleanup, styles, wrappers, rendered,
                         list>>]_vars

\* on a platform without view transitions, under a mounted provider with a
\* registered element, triggerMagicMove has just run a callback
C15_Witness ==
  /\ ~supported
  /\ last.op = "triggerMagicMove"
  /\ calls # <<>>
  /\ calls[Len(calls)].owner = Standalone
  /\ calls[Len(calls)].phase = "direct"
  /\ calls[Len(calls)].invoked = 1
  /\ \E p \in Providers :
       status[p] = "mounted" /\ hasCleanup[p] /\ elements[p] # {}

C18_TriggerNeedsNoProvider ==
  /\ [][IsTriggerMagicMoveStep =>
          /\ last'.op = "triggerMagicMove"
          /\ last'.threw =
               (IF ~supported /\ calls'[Len(calls')].throws
                THEN "CallbackError" ELSE "none")
          /\ UNCHANGED <<isTransitioning, elements, status, held, config,
                         hasCleanup, wrappers, rendered, list>>]_vars
  /\ [][(\E i \in DOMAIN calls :
            calls[i].owner = Standalone /\ calls'[i] # calls[i]) =>
          UNCHANGED <<isTransitioning, elements, wrappers, rendered, list>>]_vars

\* no provider was ever constructed, and a transition requested by
\* triggerMagicMove has run its callback and settled
C18_Witness ==
  /\ \A p \in Instances : status[p] = "unmounted"
  /\ last.op = "triggerMagicMove"
  /\ last.threw = "none"
  /\ \E i \in DOMAIN calls :
       /\ calls[i].owner = Standalone
       /\ calls[i].invoked = 1
       /\ calls[i].phase = "fulfilled"

\* a step in which a callback is handed to trigger of useMagicMove
IsHookTriggerStep == IsStartTransitionStep /\ last'.op = "trigger"

\* C19: trigger(m) of useMagicMove does to the provider above the consumer
\* what startTransition(m) does: without view transitions m is called once at
\* once, its exception reaches the caller and isTransitioning is left alone;
\* with them isTransitioning is set (when the provider is mounted) and one
\* transition is requested whose callback has not run yet; nothing else
\* changes. isAnimating is isTransitioning of that provider in every state.
C19_HookIsPassThrough ==
  /\ [](\A p \in Providers : isAnimating(p) = isTransitioning[p])
  /\ [][IsHookTriggerStep =>
          LET c == calls'[Len(calls')] IN
          /\ last'.p = c.owner
          /\ IF supported
             THEN /\ c.phase = "pending"
                  /\ c.invoked = 0
                  /\ last'.threw = "none"
                  /\ isTransitioning' =
                       (IF status[c.owner] = "mounted"
                        THEN [isTransitioning EXCEPT ![c.owner] = TRUE]
                        ELSE isTransitioning)
             ELSE /\ c.phase = "direct"
                  /\ c.invoked = 1
                  /\ last'.threw =
                       (IF c.throws THEN "CallbackError" ELSE "none")
                  /\ isTransitioning' = isTransitioning
          /\ \A i \in DOMAIN calls : calls'[i] = calls[i]
          /\ UNCHANGED <<supported, status, elements, held, config,
                         hasCleanup, styles, wrappers, rendered, list>>]_vars

\* trigger of the hook has requested a transition under a mounted provider,
\* and isAnimating is true
C19_Witness ==
  /\ supported
  /\ last.op = "trigger"
  /\ status[last.p] = "mounted"
  /\ isAnimating(last.p)
  /\ calls[Len(calls)].owner = last.p
  /\ calls[Len(calls)].phase = "pending"

\* C20 (as claimed): a callback handed to startTransition of a provider while
\* an earlier transition of that provider is unsettled waits: it has not been
\* called and no platform transition has been requested for it.
C20_OverlapIsSerialized ==
  \A i, j \in OrchestratorCalls :
    (/\ i < j
     /\ calls[i].owner = calls[j].owner
     /\ Unsettled(calls[i])) =>
      /\ calls[j].invoked = 0
      /\ calls[j].phase \notin {"pending", "called", "fulfilled", "rejected"}

\* C21 (as claimed): on a platform with view transitions, a callback handed
\* to startTransition of a mounted provider is only ever called in a state in
\* which that provider's isTransitioning is true.
C21_InvokedWhileTransitioning ==
  [][\A i \in OrchestratorCalls :
       (/\ supported
        /\ calls'[i].invoked > calls[i].invoked
        /\ status[calls[i].owner] = "mounted") =>
         isTransitioning[calls[i].owner]]_vars

\* C22: a provider's isTransitioning is true only while a transition
\* requested through it has an unsettled finished promise; it is false
\* initially, on a platform without view transitions, and as long as no
\* callback has been handed to its startTransition.
C22_NeverStuckTrue ==
  \A p \in Instances :
    /\ isTransitioning[p] =>
         \E i \in OrchestratorCalls :
           calls[i].owner = p /\ Unsettled(calls[i])
    /\ (~supported \/ \A i \in OrchestratorCalls : calls[i].owner # p) =>
         ~isTransitioning[p]

\* a first transition has settled, rejected, and isTransitioning is true
\* again for a second one that is still pending
C22_Witness ==
  /\ Len(calls) = 2
  /\ calls[1].owner \in Providers
  /\ calls[1].phase = "rejected"
  /\ calls[2].owner = calls[1].owner
  /\ calls[2].phase = "pending"
  /\ isTransitioning[calls[2].owner]

\* a wrapper is mounted under a name: its effect has registered its element
\* under that name and its cleanup has not run
MountedUnder(w, name) == name # "none" /\ wrappers[w].reg = name

\* no effect of a wrapper is due
Quiescent == \A w \in Range(Wrappers) : ~Pending(w)

C24_MountedNameHasEntry ==
  \A w \in Range(Wrappers), name \in Ids :
    MountedUnder(w, name) =>
      \E v \in Range(Wrappers) :
        /\ MountedUnder(v, name)
        /\ <<name, ElementOf(v)>> \in elements[wrappers[w].under]

\* the effect of wrapper w runs in this step
EffectRuns(w) == wrappers'[w].reg # wrappers[w].reg

C26_EntryMatchesTag ==
  Quiescent =>
    \A p \in Instances : \A entry \in elements[p] :
      \E w \in Range(Wrappers) :
        /\ ElementOf(w) = entry[2]
        /\ wrappers[w].tag = entry[1]

\* both wrappers have been renamed, their effects have run, and the registry
\* holds one entry for each
C26_Witness ==
  /\ Quiescent
  /\ \A w \in Range(Wrappers) :
       wrappers[w].prev # "none" /\ wrappers[w].prev # wrappers[w].tag
  /\ \E p \in Providers :
       elements[p] = {<<"a", ElementOf(Wrappers[1])>>,
                      <<"b", ElementOf(Wrappers[2])>>}

\* C27: a step in which a callback is handed to startTransition, with or
\* without view transitions, and every later step on that callback (its
\* render step, the settlement of its finished promise, a commit of its state
\* update) leave every registry and every style element as they are; a
\* registerElement or unregisterElement step, taken at any time, leaves
\* isTransitioning, the style elements and every callback as they are.
C27_ProtocolAndRegistryIndependent ==
  /\ [][IsStartTransitionStep => UNCHANGED <<elements, styles>>]_vars
  /\ [][(\E i \in OrchestratorCalls : calls'[i] # calls[i]) =>
          UNCHANGED <<elements, styles>>]_vars
  /\ [][(IsRegisterStep \/ IsUnregisterStep) =>
          UNCHANGED <<isTransitioning, styles, calls>>]_vars

\* an element has just been registered while a transition of the provider
\* is animating and a second one is pending
C27_Witness ==
  /\ last.op = "registerElement"
  /\ last.el \in Elements
  /\ isTransitioning[last.p]
  /\ Len(calls) = 2
  /\ calls[1].owner = last.p /\ calls[1].phase = "called"
  /\ calls[2].owner = last.p /\ calls[2].phase = "pending"
  /\ elements[last.p] # {}

\* C28: a registerElement(id, element) or unregisterElement(id) step changes
\* at most the entry of id in the registry of its provider: every other id
\* maps to the same element, or to none, as before, and the registry of any
\* other provider is unchanged.
C28_OnlyTheNamedEntryChanges ==
  [][(IsRegisterStep \/ IsUnregisterStep) =>
       /\ \A id \in Ids \ {last'.id} :
            MapGet(elements'[last'.p], id) = MapGet(elements[last'.p], id)
       /\ \A p \in Instances \ {last'.p} : elements'[p] = elements[p]]_vars

\* an element has just been registered under one id while another id keeps
\* the element it had
C28_Witness ==
  /\ last.op = "registerElement"
  /\ last.el \in Elements
  /\ \E id \in Ids \ {last.id} : MapGet(elements[last.p], id) \in Elements
  /\ MapGet(elements[last.p], last.id) = last.el

C30_OnlyCreatorRemoves ==
  [][(/\ GetElementById(styles, ProviderStyleId) # 0
      /\ \/ GetElementById(styles', ProviderStyleId) = 0
         \/ ProviderStyle(styles') # ProviderStyle(styles)) =>
       LET creator == ProviderStyle(styles).by IN
       /\ status[creator] = "mounted"
       /\ status'[creator] = "torn" \/ config'[creator] # config[creator]
       /\ \A q \in Instances \ {creator} :
            status'[q] = status[q] /\ config'[q] = config[q]]_vars

\* a provider that found the style of another one has been unmounted, and
\* the style is still in the document with its creator mounted
C30_Witness ==
  \E p, q \in Instances :
    /\ status[q] = "torn"
    /\ status[p] = "mounted" /\ hasCleanup[p]
    /\ GetElementById(styles, ProviderStyleId) # 0
    /\ ProviderStyle(styles).by = p

\* C31: a callback that throws does not leave a provider transitioning for
\* ever. Without view transitions the startTransition step that calls it
\* hands the exception to its caller and leaves isTransitioning false; with
\* view transitions the platform settles the finished promise of its
\* transition as rejected, the step that does so leaves isTransitioning of
\* its provider false, and that step always comes.
C31_ThrowDoesNotStick ==
  /\ [][(/\ ~supported
          /\ IsStartTransitionStep
          /\ calls'[Len(calls')].throws) =>
          /\ last'.threw = "CallbackError"
          /\ calls'[Len(calls')].phase = "direct"
          /\ \A p \in Providers : ~isTransitioning'[p]]_vars
  /\ [][\A i \in OrchestratorCalls :
          (/\ calls[i].throws
           /\ calls[i].phase = "called"
           /\ calls'[i].phase # "called") =>
            /\ calls'[i].phase = "rejected"
            /\ ~isTransitioning'[calls[i].owner]]_vars
  /\ \A i \in 1..MaxCalls, p \in Providers :
       (i \in DOMAIN calls /\ calls[i].owner = p /\ calls[i].throws) ~>
         (/\ i \in DOMAIN calls
          /\ calls[i].phase \in {"direct", "rejected"}
          /\ ~isTransitioning[p])

\* the only callback handed to a provider that is still mounted threw in the
\* render step, its finished promise is rejected and the provider is idle
C31_Witness ==
  /\ supported
  /\ Len(calls) = 1
  /\ calls[1].owner \in Providers
  /\ calls[1].throws
  /\ calls[1].invoked = 1
  /\ calls[1].phase = "rejected"
  /\ status[calls[1].owner] = "mounted"
  /\ ~isTransitioning[calls[1].owner]

\* a standalone call whose transition is requested and whose update callback
\* the platform has not called yet
AwaitsRenderStep(c) == c.owner = Standalone /\ c.phase = "pending"

\* C32 (as claimed): on a platform with view transitions the step of a
\* triggerMagicMove call has written the call's duration and easing into the
\* style under "magic-move-temp-styles" when it requests the transition, and
\* the style still carries them when the render step of that transition
\* runs: no step rewrites it while a render step of a standalone call is
\* outstanding.
C32_StyleCarriesCallAtRenderStep ==
  /\ [][(supported /\ IsTriggerMagicMoveStep) =>
          /\ AwaitsRenderStep(calls'[Len(calls')])
          /\ calls'[Len(calls')].invoked = 0
          /\ Timing(TempStyleOf(styles')) = Destructure(last'.options)]_vars
  /\ [][(\E i \in DOMAIN calls : AwaitsRenderStep(calls[i])) =>
          ById(styles', TempStyleId) = ById(styles, TempStyleId)]_vars

\* C33: the row MagicMoveList renders for the item with key k carries the
\* identity transitionPrefix + "-" + k, "list-item" standing in for a prefix
\* that is left out, as its viewTransitionName and as its data-magic-move-id;
\* rows of one list with distinct keys carry distinct identities; and a key
\* that is in the list before and after a render with the same prefix keeps
\* its identity, wherever in the array its item is.
C33_RowIdentityFollowsKey ==
  LET prefix == IF list.transitionPrefix = Absent THEN "list-item"
                ELSE list.transitionPrefix[1]
  IN /\ \A i \in DOMAIN list.rows :
          /\ list.rows[i].style.viewTransitionName =
               prefix \o "-" \o list.rows[i].key
          /\ list.rows[i].dataMagicMoveId =
               list.rows[i].style.viewTransitionName
     /\ \A i, j \in DOMAIN list.rows :
          list.rows[i].key # list.rows[j].key =>
            list.rows[i].style.viewTransitionName #
              list.rows[j].style.viewTransitionName
     /\ list.before.transitionPrefix = list.transitionPrefix =>
          \A i \in DOMAIN list.rows, j \in DOMAIN list.before.rows :
            list.rows[i].key = list.before.rows[j].key =>
              list.rows[i].style.viewTransitionName =
                list.before.rows[j].style.viewTransitionName

\* a list with no transitionPrefix was rendered with the keys "1", "1-2" and
\* then with the same items the other way round: the row of "1" moved from
\* the first place to the second and is "list-item-1" in both
C33_Witness ==
  /\ list.transitionPrefix = Absent
  /\ list.before.transitionPrefix = Absent
  /\ Len(list.before.rows) = 2
  /\ Len(list.rows) = 2
  /\ list.before.rows[1].key = "1"
  /\ list.before.rows[2].key = "1-2"
  /\ list.rows[1].key = "1-2"
  /\ list.rows[2].key = "1"
  /\ list.before.rows[1].style.viewTransitionName = "list-item-1"
  /\ list.rows[2].style.viewTransitionName = "list-item-1"
  /\ list.rows[1].dataMagicMoveId = "list-item-1-2"

====
